---- MODULE Spec2Model ----
(***************************************************************************)
(* AVOPP: the academic task-tracking API.  The model holds the Activity    *)
(* table, the clock, the toggle-completed requests in flight and the last  *)
(* HTTP response.  Instants are counted in ticks since the epoch;          *)
(* TicksPerHour ticks make one hour, so two instants may fall in the same  *)
(* whole hour.  A nullable column is Null (the empty tuple) or Some(v); a   *)
(* request-body field is Undefined (the empty tuple) or Some(v), where v of *)
(* a nullable column is itself Null or Some(x).  A score is the exact      *)
(* fraction <<numerator, denominator>> with a positive denominator; the    *)
(* scores that are compared with each other below (200/1, 200/2 and whole  *)
(* numbers) are exact as floating-point numbers too.                       *)
(* Columns no handler below reads back (name, description, startAt,        *)
(* createdAt, updatedAt) are not part of the model.                        *)
(***************************************************************************)
EXTENDS Integers, Sequences, FiniteSets, TLC

\* ---- bounds of the model
ApiRows == 1
RankRows == 2
MaxTicks == 1
TicksPerHour == 2
Now0 == 100

VARIABLES activities, now, reqs, response

vars == <<activities, now, reqs, response>>

Null == <<>>
Undefined == <<>>
Some(x) == <<x>>
Val(o) == o[1]

Max(a, b) == IF a >= b THEN a ELSE b

\* the exact quotient n / d (d # 0) as a fraction with a positive denominator
Frac(n, d) == IF d > 0 THEN <<n, d>> ELSE <<-n, -d>>

\* the sign-carrying difference x - y of two fractions, scaled by both denominators
FracDiff(x, y) == x[1] * y[2] - y[1] * x[2]

\* ---- enumerations of the schema
ActivityTypes == {"clase", "examen", "entrega", "tarea", "lectura"}
ActivityStatuses == {"pending", "in_progress", "completed"}
PriorityModes == {"auto", "manual"}
SubjectIds == {"s1", "s2"}

\* the two clients whose toggle requests may overlap
Requests == {1, 2}

\* ---- Scoring engine ----------------------------------------------------

\* a faulty computeColorByDue: the dead zone between red and yellow is closed
colorNoDeadZone(hoursRemaining) ==
  IF hoursRemaining = Null THEN "none"
  ELSE IF Val(hoursRemaining) <= 48 THEN "red"
  ELSE IF Val(hoursRemaining) <= 120 THEN "yellow"
  ELSE "green"

computeColorByDue(hoursRemaining) ==
  IF hoursRemaining = Null THEN "none"
  ELSE IF Val(hoursRemaining) <= 48 THEN "red"
  ELSE IF Val(hoursRemaining) >= 72 /\ Val(hoursRemaining) <= 120 THEN "yellow"
  ELSE IF Val(hoursRemaining) > 120 THEN "green"
  ELSE "none"

computeTypeBase(type) ==
  CASE type = "examen" -> 100
    [] type = "entrega" -> 70
    [] type = "tarea" -> 70
    [] type = "lectura" -> 40
    [] OTHER -> 10

\* a faulty computeStateAdjust: a completed activity is not penalised
stateAdjustNoPenalty(status) ==
  CASE status = "pending" -> 20
    [] status = "in_progress" -> 10
    [] OTHER -> 0

computeStateAdjust(status) ==
  CASE status = "pending" -> 20
    [] status = "in_progress" -> 10
    [] status = "completed" -> -100
    [] OTHER -> 0

\* date-fns differenceInHours: the difference in hours, truncated toward zero
differenceInHours(dateLeft, dateRight) ==
  LET diff == dateLeft - dateRight
  IN IF diff >= 0 THEN diff \div TicksPerHour ELSE -((-diff) \div TicksPerHour)

\* a faulty hoursRemainingOf: the floor of 1 is forgotten
hoursRemainingNoFloor(a, nowUtc) ==
  IF a.dueAt # Null THEN Some(differenceInHours(Val(a.dueAt), nowUtc)) ELSE Null

hoursRemainingOf(a, nowUtc) ==
  IF a.dueAt # Null
    THEN Some(Max(1, differenceInHours(Val(a.dueAt), nowUtc)))
    ELSE Null

\* a faulty prioritySourceOf: a stored manualPriority is honoured in any mode
prioritySourceAnyMode(a) ==
  IF a.manualPriority # Null THEN "manual" ELSE "auto"

prioritySourceOf(a) ==
  IF a.priority = "manual" /\ a.manualPriority # Null THEN "manual" ELSE "auto"

rankActivity(a, nowUtc) ==
  LET typeBase == computeTypeBase(a.type)
      stateAdj == computeStateAdjust(a.status)
      hoursRemaining == hoursRemainingOf(a, nowUtc)
      urgency == IF hoursRemaining # Null /\ Val(hoursRemaining) # 0
                   THEN Frac(200, Val(hoursRemaining))
                   ELSE <<0, 1>>
      autoScore == <<(typeBase + stateAdj) * urgency[2] + urgency[1], urgency[2]>>
      prioritySource == prioritySourceOf(a)
      score == IF prioritySource = "manual"
                 THEN <<Val(a.manualPriority), 1>>
                 ELSE autoScore
      color == computeColorByDue(hoursRemaining)
  IN a @@ [score |-> score, color |-> color, prioritySource |-> prioritySource]

\* ---- Persistence collaborator ------------------------------------------

NoResponse == [op |-> "none", status |-> 0, body |-> <<>>, nowUtc |-> Null,
               subjectId |-> ""]

IdleReq == [pc |-> "idle", id |-> 0, current |-> Null, updateData |-> Null,
            updated |-> Null]

NoData == [status |-> Undefined, priority |-> Undefined, manualPriority |-> Undefined,
           dueAt |-> Undefined, completedAt |-> Undefined, completedBy |-> Undefined]

\* prisma.activity.findUnique({ where: { id } })
findUnique(id) == IF id \in DOMAIN activities THEN Some(activities[id]) ELSE Null

\* the row after prisma.activity.update: an undefined field is left alone
ApplyUpdate(a, data) ==
  [a EXCEPT !.status = IF data.status = Undefined THEN @ ELSE Val(data.status),
            !.priority = IF data.priority = Undefined THEN @ ELSE Val(data.priority),
            !.manualPriority = IF data.manualPriority = Undefined THEN @
                               ELSE Val(data.manualPriority),
            !.dueAt = IF data.dueAt = Undefined THEN @ ELSE Val(data.dueAt),
            !.completedAt = IF data.completedAt = Undefined THEN @
                            ELSE Val(data.completedAt),
            !.completedBy = IF data.completedBy = Undefined THEN @
                            ELSE Val(data.completedBy)]

\* ---- POST /api/activities ----------------------------------------------

CreateActivity(subjectId, type, dueAt) ==
  /\ IF subjectId = "" \/ type = "" \/ subjectId \notin SubjectIds
       THEN /\ response' = [op |-> "create", status |-> 400, body |-> <<>>,
                            nowUtc |-> Null, subjectId |-> ""]
            /\ UNCHANGED activities
       ELSE LET item == [id |-> Len(activities) + 1, subjectId |-> subjectId,
                         type |-> type, status |-> "pending", priority |-> "auto",
                         manualPriority |-> Null, dueAt |-> dueAt,
                         completedAt |-> Null, completedBy |-> Null]
            IN /\ activities' = Append(activities, item)
               /\ response' = [op |-> "create", status |-> 201, body |-> <<item>>,
                               nowUtc |-> Null, subjectId |-> ""]
  /\ UNCHANGED <<now, reqs>>

\* ---- PATCH /api/activities/:id -----------------------------------------

\* updateData of the PATCH handler, from the request body
PatchData(body) ==
  [status |-> body.status, priority |-> body.priority,
   manualPriority |-> body.manualPriority, dueAt |-> body.dueAt,
   completedAt |-> body.completedAt, completedBy |-> body.completedBy]

PatchActivity(id, body) ==
  /\ IF id \in DOMAIN activities
       THEN LET item == ApplyUpdate(activities[id], PatchData(body))
            IN /\ activities' = [activities EXCEPT ![id] = item]
               /\ response' = [op |-> "patch", status |-> 200, body |-> <<item>>,
                               nowUtc |-> Null, subjectId |-> ""]
       ELSE /\ response' = [op |-> "patch", status |-> 400, body |-> <<>>,
                            nowUtc |-> Null, subjectId |-> ""]
            /\ UNCHANGED activities
  /\ UNCHANGED <<now, reqs>>

\* ---- POST /api/activities/:id/toggle-completed -------------------------

\* a faulty ToggleData: the completion fields are not cleared on un-completing
ToggleDataKeepsAudit(current, at) ==
  IF current.status = "completed"
    THEN [NoData EXCEPT !.status = Some("pending")]
    ELSE [NoData EXCEPT !.status = Some("completed"),
                        !.completedAt = Some(Some(at)),
                        !.completedBy = Some(Some("student"))]

\* a faulty ToggleData: completing does not record the actor
ToggleDataNoActor(current, at) ==
  IF current.status = "completed"
    THEN [NoData EXCEPT !.status = Some("pending"),
                        !.completedAt = Some(Null),
                        !.completedBy = Some(Null)]
    ELSE [NoData EXCEPT !.status = Some("completed"),
                        !.completedAt = Some(Some(at))]

\* a faulty ToggleData: any status that is not pending goes back to pending
ToggleDataFromPending(current, at) ==
  IF current.status # "pending"
    THEN [NoData EXCEPT !.status = Some("pending"),
                        !.completedAt = Some(Null),
                        !.completedBy = Some(Null)]
    ELSE [NoData EXCEPT !.status = Some("completed"),
                        !.completedAt = Some(Some(at)),
                        !.completedBy = Some(Some("student"))]

\* updateData of the toggle handler, from the row it read and the instant
ToggleData(current, at) ==
  LET nextStatus == IF current.status = "completed" THEN "pending" ELSE "completed"
  IN IF nextStatus = "completed"
       THEN [NoData EXCEPT !.status = Some(nextStatus),
                           !.completedAt = Some(Some(at)),
                           !.completedBy = Some(Some("student"))]
       ELSE [NoData EXCEPT !.status = Some(nextStatus),
                           !.completedAt = Some(Null),
                           !.completedBy = Some(Null)]

\* client r, with no request of its own in flight, sends one; findUnique
\* resolves; the handler answers 404 or builds updateData and issues the update
ToggleRead(r, id) ==
  /\ reqs[r].pc # "update"
  /\ LET current == findUnique(id)
     IN IF current = Null
          THEN /\ reqs' = [reqs EXCEPT ![r] = [IdleReq EXCEPT !.pc = "done", !.id = id]]
               /\ response' = [op |-> "toggle", status |-> 404, body |-> <<>>,
                               nowUtc |-> Null, subjectId |-> ""]
          ELSE /\ reqs' = [reqs EXCEPT ![r] =
                            [pc |-> "update", id |-> id, current |-> current,
                             updateData |-> Some(ToggleData(Val(current), now)),
                             updated |-> Null]]
               /\ UNCHANGED response
  /\ UNCHANGED <<activities, now>>

\* the store applies the update; the handler answers with the updated row
ToggleUpdate(r) ==
  /\ reqs[r].pc = "update"
  /\ LET id == reqs[r].id
         item == ApplyUpdate(activities[id], Val(reqs[r].updateData))
     IN /\ activities' = [activities EXCEPT ![id] = item]
        /\ reqs' = [reqs EXCEPT ![r].pc = "done", ![r].updated = Some(item)]
        /\ response' = [op |-> "toggle", status |-> 200, body |-> <<item>>,
                        nowUtc |-> Null, subjectId |-> ""]
  /\ UNCHANGED now

\* ---- GET /api/activities/ranking ---------------------------------------

\* a faulty compareRanked: a row without a due date counts as the latest
compareRankedNullsLast(a, b) ==
  LET byScore == FracDiff(b.score, a.score)
      byDue == IF a.dueAt = Null /\ b.dueAt = Null THEN 0
               ELSE IF a.dueAt = Null THEN 1
               ELSE IF b.dueAt = Null THEN -1
               ELSE Val(a.dueAt) - Val(b.dueAt)
      byType == computeTypeBase(b.type) - computeTypeBase(a.type)
  IN IF byScore # 0 THEN byScore ELSE IF byDue # 0 THEN byDue ELSE byType

\* the sort comparator: negative when a goes first, 0 when tied
compareRanked(a, b) ==
  LET byScore == FracDiff(b.score, a.score)
      dueA == IF a.dueAt = Null THEN 0 ELSE Val(a.dueAt)
      dueB == IF b.dueAt = Null THEN 0 ELSE Val(b.dueAt)
      byDue == dueA - dueB
      byType == computeTypeBase(b.type) - computeTypeBase(a.type)
  IN IF byScore # 0 THEN byScore ELSE IF byDue # 0 THEN byDue ELSE byType

\* x placed into the sorted s, after every element it does not go before
RECURSIVE InsertSorted(_, _)
InsertSorted(s, x) ==
  IF s = <<>> THEN <<x>>
  ELSE IF compareRanked(Head(s), x) > 0 THEN <<x>> \o s
  ELSE <<Head(s)>> \o InsertSorted(Tail(s), x)

\* Array.prototype.sort with compareRanked: a stable sort
RECURSIVE SortRanked(_)
SortRanked(s) ==
  IF s = <<>> THEN <<>>
  ELSE InsertSorted(SortRanked(SubSeq(s, 1, Len(s) - 1)), s[Len(s)])

\* the orders in which the store may return its rows (no orderBy is given)
RowOrders == {p \in [DOMAIN activities -> DOMAIN activities] :
                \A i, j \in DOMAIN activities : i # j => p[i] # p[j]}

\* a faulty rankingWhere: completed rows are left out as well
rankingWhereOpenOnly(a, subjectId) ==
  /\ a.type # "clase"
  /\ a.status # "completed"
  /\ (subjectId # "" => a.subjectId = subjectId)

\* the where clause of the ranking query
rankingWhere(a, subjectId) ==
  /\ a.type # "clase"
  /\ (subjectId # "" => a.subjectId = subjectId)

\* prisma.activity.findMany({ where }) with the rows in the order p
findManyRanking(subjectId, p) ==
  LET rows == [i \in DOMAIN activities |-> activities[p[i]]]
      Keep(a) == rankingWhere(a, subjectId)
  IN SelectSeq(rows, Keep)

Ranking(subjectId, p) ==
  /\ LET items == findManyRanking(subjectId, p)
         nowUtc == now
         ranked == [i \in DOMAIN items |-> rankActivity(items[i], nowUtc)]
     IN response' = [op |-> "ranking", status |-> 200, body |-> SortRanked(ranked),
                     nowUtc |-> Some(nowUtc), subjectId |-> subjectId]
  /\ UNCHANGED <<activities, now, reqs>>

\* ---- the clock ----------------------------------------------------------

Tick ==
  /\ now < Now0 + MaxTicks
  /\ now' = now + 1
  /\ UNCHANGED <<activities, reqs, response>>

\* ---- inputs --------------------------------------------------------------

\* a PATCH body carrying only the given fields
Body(status, priority, manualPriority, completedAt, completedBy) ==
  [status |-> status, priority |-> priority, manualPriority |-> manualPriority,
   dueAt |-> Undefined, completedAt |-> completedAt, completedBy |-> completedBy]

StatusBody(st) == Body(Some(st), Undefined, Undefined, Undefined, Undefined)

ManualBody == Body(Undefined, Some("manual"), Some(Some(110)), Undefined, Undefined)

PreEpoch == Some(0 - TicksPerHour)

Idle == [r \in Requests |-> IdleReq]

\* ---- the mutating API: create, patch and toggle, clients toggling again ---

\* the ids a request may name: those of the rows the store may hold, one more
ActivityIds(rows) == 1..(rows + 1)

ApiBodies == {StatusBody(st) : st \in ActivityStatuses}

Init ==
  /\ activities = <<>>
  /\ now = Now0
  /\ reqs = Idle
  /\ response = NoResponse

Next ==
  \/ /\ Len(activities) < ApiRows
     /\ \E subjectId \in {"s1", ""} : CreateActivity(subjectId, "tarea", Null)
  \/ \E id \in ActivityIds(ApiRows), body \in ApiBodies : PatchActivity(id, body)
  \/ \E r \in Requests, id \in ActivityIds(ApiRows) : ToggleRead(r, id)
  \/ \E r \in Requests : ToggleUpdate(r)

Spec == Init /\ [][Next]_vars

\* ---- create and toggle only ---------------------------------------------

\* each client sends one toggle request
NextToggle ==
  \/ /\ Len(activities) < ApiRows
     /\ CreateActivity("s1", "tarea", Null)
  \/ \E r \in Requests, id \in ActivityIds(ApiRows) :
       reqs[r].pc = "idle" /\ ToggleRead(r, id)
  \/ \E r \in Requests : ToggleUpdate(r)
  \/ Tick

SpecToggle == Init /\ [][NextToggle]_vars

\* ---- the scoring engine on one stored activity --------------------------

ScoreHours == {0, 1, 2, 10, 48, 49, 71, 72, 73, 120, 121, 122}

ScoreDues ==
  {Null, PreEpoch, Some(Now0 - 3 * TicksPerHour)}
    \cup {Some(Now0 + h * TicksPerHour + 1) : h \in ScoreHours}

ScoreActivities ==
  [id : {1}, subjectId : {"s1"}, type : ActivityTypes, status : ActivityStatuses,
   priority : PriorityModes, manualPriority : {Null, Some(0), Some(250)},
   dueAt : ScoreDues, completedAt : {Null}, completedBy : {Null}]

InitScore ==
  /\ \E a \in ScoreActivities : activities = <<a>>
  /\ now = Now0
  /\ reqs = Idle
  /\ response = NoResponse

NextScore ==
  \/ \E p \in RowOrders : Ranking("", p)
  \/ Tick

SpecScore == InitScore /\ [][NextScore]_vars

\* ---- the ranking order ---------------------------------------------------

OrderDues == {Null, PreEpoch, Some(Now0 + 2 * TicksPerHour),
              Some(Now0 + 2 * TicksPerHour + 1)}

OrderBodies == {StatusBody("completed"), ManualBody}

NextOrder ==
  \/ /\ Len(activities) < RankRows
     /\ \E type \in {"examen", "lectura"}, dueAt \in OrderDues :
          CreateActivity("s1", type, dueAt)
  \/ \E id \in ActivityIds(RankRows), body \in OrderBodies : PatchActivity(id, body)
  \/ \E p \in RowOrders : Ranking("", p)

SpecOrder == Init /\ [][NextOrder]_vars

\* ---- the ranking filter --------------------------------------------------

FilterBodies == {StatusBody("completed")}

NextFilter ==
  \/ /\ Len(activities) < RankRows
     /\ \E subjectId \in SubjectIds, type \in {"clase", "tarea"},
           dueAt \in {Null, Some(Now0 + 2 * TicksPerHour)} :
          CreateActivity(subjectId, type, dueAt)
  \/ \E id \in ActivityIds(RankRows), body \in FilterBodies : PatchActivity(id, body)
  \/ \E subjectId \in SubjectIds \cup {""}, p \in RowOrders : Ranking(subjectId, p)

SpecFilter == Init /\ [][NextFilter]_vars

\* ---- what the claims speak of ---------------------------------------------

\* the audit fields agree with each other and with the status
AuditConsistent(a) ==
  /\ (a.completedAt = Null) <=> (a.completedBy = Null)
  /\ (a.completedAt # Null) <=> (a.status = "completed")

SameNullness(x, y) == (x = Null) <=> (y = Null)

\* request r2 toggled the row exactly as request r1 had left it
ToggledInSequence(r1, r2) ==
  /\ r1 # r2
  /\ reqs[r1].pc = "done" /\ reqs[r1].updated # Null
  /\ reqs[r2].pc = "done" /\ reqs[r2].updated # Null
  /\ reqs[r1].id = reqs[r2].id
  /\ reqs[r2].current = reqs[r1].updated

\* remaining-hours as the specification words it: the whole hours from nowUtc to
\* dueAt, and 1 when less than one whole hour is left
RemainingHours(dueAt, nowUtc) ==
  LET d == dueAt - nowUtc
  IN IF d < TicksPerHour THEN 1
     ELSE CHOOSE h \in 1..d : h * TicksPerHour <= d /\ d < (h + 1) * TicksPerHour

BaseOf(x) == computeTypeBase(x.type) + computeStateAdjust(x.status)

\* type base + status adjustment + urgency, as a fraction
AutoScore(x, nowUtc) ==
  IF x.dueAt = Null THEN <<BaseOf(x), 1>>
  ELSE LET h == RemainingHours(Val(x.dueAt), nowUtc)
       IN <<BaseOf(x) * h + 200, h>>

\* the urgency term a scored item carries: its score less its base
UrgencyOf(x) == <<x.score[1] - BaseOf(x) * x.score[2], x.score[2]>>

DueInstant(x) == IF x.dueAt = Null THEN 0 ELSE Val(x.dueAt)

IsRanking == response.op = "ranking"

Ranked == response.body

RankedAt == Val(response.nowUtc)

\* ---- C1 ------------------------------------------------------------------

\* C1 as stated: two toggles in sequence restore the status, whatever it was,
\* and the null/non-null state of completedAt and completedBy.
C1_ToggleTwiceRestores ==
  \A r1 \in Requests, r2 \in Requests :
    ToggledInSequence(r1, r2) =>
      LET o == Val(reqs[r1].current)
          f == Val(reqs[r2].updated)
      IN /\ f.status = o.status
         /\ SameNullness(f.completedAt, o.completedAt)
         /\ SameNullness(f.completedBy, o.completedBy)

\* C1 amended: two toggles in sequence restore a pending or completed status;
\* they restore the null/non-null state of the audit fields when those agreed
\* with the status to begin with; from in_progress they end in pending with
\* both audit fields null.
C1_ToggleTwiceAmended ==
  \A r1 \in Requests, r2 \in Requests :
    ToggledInSequence(r1, r2) =>
      LET o == Val(reqs[r1].current)
          f == Val(reqs[r2].updated)
      IN /\ o.status \in {"pending", "completed"} => f.status = o.status
         /\ (o.status \in {"pending", "completed"} /\ AuditConsistent(o)) =>
              /\ SameNullness(f.completedAt, o.completedAt)
              /\ SameNullness(f.completedBy, o.completedBy)
         /\ o.status = "in_progress" =>
              f.status = "pending" /\ f.completedAt = Null /\ f.completedBy = Null

\* a completed row with both audit fields set was toggled twice and is
\* completed again, with both set
C1_Witness ==
  \E r1 \in Requests, r2 \in Requests :
    /\ ToggledInSequence(r1, r2)
    /\ Val(reqs[r1].current).status = "completed"
    /\ AuditConsistent(Val(reqs[r1].current))
    /\ Val(reqs[r1].updated).status = "pending"
    /\ Val(reqs[r2].updated).status = "completed"
    /\ Val(reqs[r2].updated).completedAt # Null

\* ---- C2 ------------------------------------------------------------------

StatusStepAudited(a, b) ==
  /\ (a.status # "completed" /\ b.status = "completed") =>
       b.completedAt # Null /\ b.completedBy # Null
  /\ (a.status = "completed" /\ b.status # "completed") =>
       b.completedAt = Null /\ b.completedBy = Null

\* C2 as stated: every step (toggle or PATCH) that makes a row completed leaves
\* completedAt and completedBy set, and every step that takes a row out of
\* completed leaves both null.
C2_StatusChangeSetsAudit ==
  [][\A id \in DOMAIN activities :
       StatusStepAudited(activities[id], activities'[id])]_vars

\* C2 amended: the above holds of the toggle-completed update; a PATCH writes
\* completedAt and completedBy only from its body, so a PATCH carrying just a
\* status leaves both as they were.
C2_ToggleSetsAudit ==
  [][/\ (\E r \in Requests : ToggleUpdate(r)) =>
          \A id \in DOMAIN activities :
            StatusStepAudited(activities[id], activities'[id])
     /\ \A id \in DOMAIN activities, body \in ApiBodies :
          PatchActivity(id, body) =>
            /\ activities'[id].completedAt =
                 IF body.completedAt = Undefined THEN activities[id].completedAt
                 ELSE Val(body.completedAt)
            /\ activities'[id].completedBy =
                 IF body.completedBy = Undefined THEN activities[id].completedBy
                 ELSE Val(body.completedBy)]_vars

\* a toggle has just taken a row out of completed, and another has just made
\* a row completed
C2_Witness ==
  /\ response.op = "toggle" /\ response.status = 200
  /\ response.body[1].status = "pending"
  /\ \E r \in Requests :
       /\ reqs[r].updated = Some(response.body[1])
       /\ Val(reqs[r].current).status = "completed"
       /\ Val(reqs[r].current).completedAt # Null
  /\ \E r \in Requests :
       /\ reqs[r].updated # Null
       /\ Val(reqs[r].updated).status = "completed"
       /\ Val(reqs[r].current).status # "completed"

\* ---- C3 ------------------------------------------------------------------

\* C3: under any interleaving of creates and of the read and update steps of
\* toggles, every stored row has completedAt and completedBy both null or both
\* set, and set exactly when its status is completed.
C3_AuditConsistent ==
  \A id \in DOMAIN activities : AuditConsistent(activities[id])

\* both toggles read the row before either wrote it, and both have written
C3_Witness ==
  /\ \A r \in Requests : reqs[r].pc = "done" /\ reqs[r].updated # Null
  /\ reqs[1].id = reqs[2].id
  /\ reqs[1].current = reqs[2].current
  /\ activities[reqs[1].id].status = "completed"

\* ---- C10 -----------------------------------------------------------------

\* C10: once two toggle requests on the same row have both finished, the row
\* is completed exactly if it was before them; under create and toggle alone a
\* row is pending before its first toggle.
C10_NoLostToggle ==
  \A id \in DOMAIN activities :
    (\A r \in Requests : reqs[r].pc = "done" /\ reqs[r].id = id /\ reqs[r].updated # Null)
      => activities[id].status = "pending"

\* ---- C4 ------------------------------------------------------------------

\* the number of items of the ranking that carry the id
TimesRanked(id) == Cardinality({i \in DOMAIN Ranked : Ranked[i].id = id})

\* C4: the ranking holds no row of type clase, and holds exactly once every
\* stored row that is not a clase and matches the subject filter (every such
\* row when there is no filter), whatever its status, priority mode or due date.
C4_RankingMembers ==
  IsRanking =>
    /\ \A i \in DOMAIN Ranked :
         Ranked[i].type # "clase" /\ Ranked[i].id \in DOMAIN activities
    /\ \A id \in DOMAIN activities :
         TimesRanked(id) =
           IF /\ activities[id].type # "clase"
              /\ (response.subjectId = "" \/ activities[id].subjectId = response.subjectId)
             THEN 1 ELSE 0

\* a ranking filtered by subject that keeps a completed row of that subject and
\* leaves out the other stored row
C4_Witness ==
  /\ IsRanking /\ response.subjectId # ""
  /\ Len(activities) = 2 /\ Len(Ranked) = 1
  /\ Ranked[1].status = "completed"

\* ---- C5 ------------------------------------------------------------------

\* the order of the ranking: score descending, then due instant ascending with
\* an absent due date as instant 0, then type base descending
OrderedPair(x, y) ==
  /\ FracDiff(x.score, y.score) >= 0
  /\ FracDiff(x.score, y.score) = 0 => DueInstant(x) <= DueInstant(y)
  /\ (FracDiff(x.score, y.score) = 0 /\ DueInstant(x) = DueInstant(y)) =>
       computeTypeBase(x.type) >= computeTypeBase(y.type)

\* C5 as stated: every x before y in the ranking is ordered as above, and so an
\* item without a due date comes before any equal-score item that has one.
C5_OrderNullDueFirst ==
  IsRanking =>
    \A i \in DOMAIN Ranked, j \in DOMAIN Ranked :
      i < j =>
        /\ OrderedPair(Ranked[i], Ranked[j])
        /\ ~ /\ FracDiff(Ranked[i].score, Ranked[j].score) = 0
             /\ Ranked[i].dueAt # Null
             /\ Ranked[j].dueAt = Null

\* C5 amended: every x before y in the ranking is ordered as above; among equal
\* scores an item without a due date comes before one due after the epoch and
\* after one due before the epoch.
C5_Order ==
  IsRanking =>
    \A i \in DOMAIN Ranked, j \in DOMAIN Ranked :
      i < j =>
        /\ OrderedPair(Ranked[i], Ranked[j])
        /\ (FracDiff(Ranked[i].score, Ranked[j].score) = 0 /\ Ranked[j].dueAt = Null) =>
             (Ranked[i].dueAt = Null \/ Val(Ranked[i].dueAt) <= 0)
        /\ (FracDiff(Ranked[i].score, Ranked[j].score) = 0 /\ Ranked[i].dueAt = Null) =>
             (Ranked[j].dueAt = Null \/ Val(Ranked[j].dueAt) >= 0)

\* a ranking of two equal-score items, the first without a due date and the
\* second with one
C5_Witness ==
  /\ IsRanking /\ Len(Ranked) = 2
  /\ FracDiff(Ranked[1].score, Ranked[2].score) = 0
  /\ Ranked[1].dueAt = Null /\ Ranked[2].dueAt # Null

\* ---- C6 ------------------------------------------------------------------

\* C6 as stated: in any ranking no completed item comes before a pending or
\* in_progress one.
C6_CompletedLast ==
  IsRanking =>
    \A i \in DOMAIN Ranked, j \in DOMAIN Ranked :
      (Ranked[i].status = "completed" /\ Ranked[j].status # "completed") => j < i

\* C6 amended: a completed item comes after a pending or in_progress one when
\* both are scored automatically and the completed one's urgency term is no
\* larger than the other's (the same due date, or no due date on either),
\* whatever their types.
C6_CompletedLastAuto ==
  IsRanking =>
    \A i \in DOMAIN Ranked, j \in DOMAIN Ranked :
      ( /\ Ranked[i].status = "completed" /\ Ranked[j].status # "completed"
        /\ Ranked[i].prioritySource = "auto" /\ Ranked[j].prioritySource = "auto"
        /\ FracDiff(UrgencyOf(Ranked[i]), UrgencyOf(Ranked[j])) <= 0 ) => j < i

\* a completed exam ranked below a pending reading with the same due date
C6_Witness ==
  /\ IsRanking /\ Len(Ranked) = 2
  /\ Ranked[2].status = "completed" /\ Ranked[2].type = "examen"
  /\ Ranked[1].status = "pending" /\ Ranked[1].type = "lectura"
  /\ Ranked[1].prioritySource = "auto" /\ Ranked[2].prioritySource = "auto"
  /\ Ranked[1].dueAt = Ranked[2].dueAt /\ Ranked[1].dueAt # Null

\* ---- C7 ------------------------------------------------------------------

\* C7: an item in manual mode with a manualPriority gets that value as its
\* score and the source manual, whatever its type, status and due date (so two
\* such items with the same manualPriority score the same); any other item gets
\* the auto score and the source auto, whatever manualPriority holds.
C7_ManualOverride ==
  IsRanking =>
    \A i \in DOMAIN Ranked :
      LET x == Ranked[i]
      IN IF x.priority = "manual" /\ x.manualPriority # Null
           THEN x.score = <<Val(x.manualPriority), 1>> /\ x.prioritySource = "manual"
           ELSE /\ FracDiff(x.score, AutoScore(x, RankedAt)) = 0
                /\ x.prioritySource = "auto"

\* an item in auto mode whose stored manualPriority is not its score
C7_Witness ==
  /\ IsRanking /\ Len(Ranked) = 1
  /\ Ranked[1].priority = "auto" /\ Ranked[1].manualPriority = Some(250)
  /\ Ranked[1].prioritySource = "auto"
  /\ FracDiff(Ranked[1].score, <<250, 1>>) # 0

\* ---- C8 ------------------------------------------------------------------

\* C8: an auto-mode item scores type base + status adjustment + urgency, where
\* urgency is 0 without a due date and 200 / max(1, whole hours left) with one:
\* then it lies in (0, 200], an overdue item gets 200 as does one due in one
\* hour, and the divisor is never zero or negative.
C8_AutoScore ==
  IsRanking =>
    \A i \in DOMAIN Ranked :
      LET x == Ranked[i]
          u == UrgencyOf(x)
      IN x.priority = "auto" =>
           /\ x.score[2] > 0
           /\ FracDiff(x.score, AutoScore(x, RankedAt)) = 0
           /\ x.dueAt = Null => u[1] = 0
           /\ x.dueAt # Null =>
                /\ FracDiff(u, <<0, 1>>) > 0
                /\ FracDiff(u, <<200, 1>>) <= 0
                /\ Val(x.dueAt) - RankedAt < 2 * TicksPerHour =>
                     FracDiff(u, <<200, 1>>) = 0

\* an overdue auto-mode item, scored with urgency 200
C8_Witness ==
  /\ IsRanking /\ Len(Ranked) = 1
  /\ Ranked[1].priority = "auto" /\ Ranked[1].dueAt # Null
  /\ Val(Ranked[1].dueAt) < RankedAt
  /\ FracDiff(UrgencyOf(Ranked[1]), <<200, 1>>) = 0

\* ---- C9 ------------------------------------------------------------------

\* C9: the color follows from remaining-hours alone: none without a due date,
\* red up to 48 hours (every overdue item included), none between 48 and 72,
\* yellow from 72 to 120, green above 120.
C9_Color ==
  IsRanking =>
    \A i \in DOMAIN Ranked :
      LET x == Ranked[i]
          h == RemainingHours(Val(x.dueAt), RankedAt)
      IN x.color =
           IF x.dueAt = Null THEN "none"
           ELSE IF h <= 48 THEN "red"
           ELSE IF h < 72 THEN "none"
           ELSE IF h <= 120 THEN "yellow"
           ELSE "green"

\* a completed item in manual mode, due in the dead zone, colored none
C9_Witness ==
  /\ IsRanking /\ Len(Ranked) = 1
  /\ Ranked[1].dueAt # Null /\ Ranked[1].color = "none"
  /\ Ranked[1].status = "completed" /\ Ranked[1].prioritySource = "manual"

====
